---------------------------- MODULE Spec2Model ----------------------------
(***************************************************************************)
(* State-machine model of the graph explorer of OrgMind's frontend:        *)
(*   frontend/src/components/graph/graph-viewer.tsx  (GraphViewer)         *)
(*   frontend/src/app/graph/page.tsx                 (GraphPage)           *)
(*                                                                         *)
(* The React state cells of the two components are the variables; every    *)
(* event handler and every arrival of a response of the graph service is   *)
(* one action.  JavaScript numbers are modelled as exact rationals: the    *)
(* zoom scale is always of the form 2^a * 3^b * 5^c (1, 3 and 0.3 times a  *)
(* power of 1.2 = 6/5) and is stored as that exponent vector; pointer and  *)
(* pan coordinates are integers.  Rounding of IEEE doubles is not          *)
(* modelled.                                                               *)
(*                                                                         *)
(* The background script of the browser extension,                         *)
(*   tools/browser-extension/background.js,                                *)
(* is modelled beside it: its one module variable, the clock it reads and  *)
(* the requests it has issued.                                             *)
(***************************************************************************)
EXTENDS Integers, Sequences, FiniteSets, TLC

VARIABLES
    \* ---- GraphViewer (graph-viewer.tsx:36-43)
    graphData,      \* [nodes: Seq(Node), edges: Seq(Edge)]
    loading,        \* BOOLEAN
    error,          \* "null" or the message
    selectedNode,   \* a Node, or NoNode for null
    scale,          \* [e2, e3, e5]: the number 2^e2 * 3^e3 * 5^e5
    position,       \* [x, y]
    isDragging,     \* BOOLEAN
    dragStart,      \* [x, y]
    \* ---- the calls of loadGraph suspended at `await api.graph.get`
    inflight,       \* Seq(Request), in the order the calls were made
    effectDep,      \* the initialNodeId the effect of lines 59-63 last ran with
    \* ---- GraphPage (page.tsx:21-27)
    initialNodeId,  \* the nodeId parameter of the URL, "none" when absent
    searchQuery,
    searchResults,  \* Seq(Node)
    searching,      \* BOOLEAN
    pageSelected,   \* GraphPage's own selectedNode
    depth,          \* "1", "2" or "3"
    searches,       \* number of handleSearch calls suspended at `await api.graph.search`
    \* ---- browser extension (background.js)
    lastCaptureTime,\* line 6
    clock,          \* the value Date.now() returns
    posts,          \* Seq([at, tabId, status]): the POSTs issued, in order
    getting,        \* Seq(tab id): listeners suspended at `await chrome.tabs.get`
    \* ---- history (not program state): the last event handled, and the
    \* data of the last response that was applied
    last,
    lastData

vars == << graphData, loading, error, selectedNode, scale, position, isDragging,
           dragStart, inflight, effectDep, initialNodeId, searchQuery,
           searchResults, searching, pageSelected, depth, searches,
           lastCaptureTime, clock, posts, getting, last, lastData >>

viewerData == << graphData, loading, error, selectedNode, inflight, effectDep >>
viewport   == << scale, position, isDragging, dragStart >>
pageState  == << initialNodeId, searchQuery, searchResults, searching,
                 pageSelected, depth, searches >>
capture    == << lastCaptureTime, clock, posts, getting >>

-----------------------------------------------------------------------------
(* Exact arithmetic.  A natural number is the sequence of its base-10000    *)
(* digits, least significant first, without leading zeros (0 is << >>): the *)
(* numerators and denominators of the reachable scales exceed 2^31.         *)

RECURSIVE BNorm(_)
BNorm(a) ==
    IF a = << >> THEN << >>
    ELSE IF a[Len(a)] = 0 THEN BNorm(SubSeq(a, 1, Len(a) - 1)) ELSE a

RECURSIVE BFromNat(_)
BFromNat(n) ==
    IF n = 0 THEN << >> ELSE << n % 10000 >> \o BFromNat(n \div 10000)

RECURSIVE BAddC(_, _, _)
BAddC(a, b, c) ==
    IF a = << >> /\ b = << >> THEN (IF c = 0 THEN << >> ELSE << c >>)
    ELSE LET x == IF a = << >> THEN 0 ELSE Head(a)
             y == IF b = << >> THEN 0 ELSE Head(b)
             t == x + y + c
         IN  << t % 10000 >> \o BAddC(IF a = << >> THEN a ELSE Tail(a),
                                      IF b = << >> THEN b ELSE Tail(b),
                                      t \div 10000)

BAdd(a, b) == BAddC(a, b, 0)

\* a - b for a >= b
RECURSIVE BSubC(_, _, _)
BSubC(a, b, c) ==
    IF a = << >> THEN << >>
    ELSE LET y == IF b = << >> THEN 0 ELSE Head(b)
             t == Head(a) - y - c
         IN  << (t + 10000) % 10000 >>
                 \o BSubC(Tail(a), IF b = << >> THEN b ELSE Tail(b),
                          IF t < 0 THEN 1 ELSE 0)

BSub(a, b) == BNorm(BSubC(a, b, 0))

RECURSIVE BMulSmallC(_, _, _)
BMulSmallC(a, m, c) ==
    IF a = << >> THEN BFromNat(c)
    ELSE LET t == Head(a) * m + c
         IN  << t % 10000 >> \o BMulSmallC(Tail(a), m, t \div 10000)

BMulSmall(a, m) == IF m = 0 THEN << >> ELSE BMulSmallC(a, m, 0)

RECURSIVE BMul(_, _)
BMul(a, b) ==
    IF a = << >> \/ b = << >> THEN << >>
    ELSE BAdd(BMulSmall(a, Head(b)),
              LET r == BMul(a, Tail(b)) IN IF r = << >> THEN r ELSE << 0 >> \o r)

RECURSIVE BPow(_, _)
BPow(p, e) == IF e = 0 THEN << 1 >> ELSE BMulSmall(BPow(p, e - 1), p)

\* -1, 0, 1 as a < b, a = b, a > b
RECURSIVE BCmpTop(_, _, _)
BCmpTop(a, b, i) ==
    IF i = 0 THEN 0
    ELSE IF a[i] < b[i] THEN -1
    ELSE IF a[i] > b[i] THEN 1
    ELSE BCmpTop(a, b, i - 1)

BCmp(a, b) ==
    IF Len(a) < Len(b) THEN -1
    ELSE IF Len(a) > Len(b) THEN 1
    ELSE BCmpTop(a, b, Len(a))

(* A rational is [sg, n, d]: sign sg in {-1, 0, 1}, numerator n and         *)
(* denominator d > 0 as naturals; not reduced, compared by cross            *)
(* multiplication.                                                          *)
RFromInt(i) ==
    [sg |-> IF i < 0 THEN -1 ELSE IF i = 0 THEN 0 ELSE 1,
     n  |-> BFromNat(IF i < 0 THEN -i ELSE i),
     d  |-> << 1 >>]

RNeg(a) == [a EXCEPT !.sg = -a.sg]

RMul(a, b) ==
    [sg |-> a.sg * b.sg, n |-> BMul(a.n, b.n), d |-> BMul(a.d, b.d)]

\* a / b for b # 0
RDiv(a, b) ==
    [sg |-> a.sg * b.sg, n |-> BMul(a.n, b.d), d |-> BMul(a.d, b.n)]

RAdd(a, b) ==
    LET x == BMul(a.n, b.d)
        y == BMul(b.n, a.d)
        d == BMul(a.d, b.d)
    IN  IF a.sg = 0 THEN b
        ELSE IF b.sg = 0 THEN a
        ELSE IF a.sg = b.sg THEN [sg |-> a.sg, n |-> BAdd(x, y), d |-> d]
        ELSE CASE BCmp(x, y) = 0  -> [sg |-> 0, n |-> << >>, d |-> << 1 >>]
               [] BCmp(x, y) = 1  -> [sg |-> a.sg, n |-> BSub(x, y), d |-> d]
               [] BCmp(x, y) = -1 -> [sg |-> b.sg, n |-> BSub(y, x), d |-> d]

RSub(a, b) == RAdd(a, RNeg(b))

REq(a, b) == a.sg = b.sg /\ BMul(a.n, b.d) = BMul(b.n, a.d)

\* a < b
RLess(a, b) == RSub(a, b).sg = -1

-----------------------------------------------------------------------------
(* The zoom scale, graph-viewer.tsx:40 and 65-66.                           *)

Pos(e) == IF e > 0 THEN e ELSE 0

\* the rational a scale stands for
ScaleVal(s) ==
    [sg |-> 1,
     n  |-> BMul(BMul(BPow(2, Pos(s.e2)), BPow(3, Pos(s.e3))), BPow(5, Pos(s.e5))),
     d  |-> BMul(BMul(BPow(2, Pos(-s.e2)), BPow(3, Pos(-s.e3))), BPow(5, Pos(-s.e5)))]

ScaleOne == [e2 |-> 0, e3 |-> 0, e5 |-> 0]      \* useState(1), setScale(1)
MaxScale == [e2 |-> 0, e3 |-> 1, e5 |-> 0]      \* 3
MinScale == [e2 |-> -1, e3 |-> 1, e5 |-> -1]    \* 0.3 = 3/10

\* s * 1.2 and s / 1.2, 1.2 = 2 * 3 / 5
Times12(s) == [e2 |-> s.e2 + 1, e3 |-> s.e3 + 1, e5 |-> s.e5 - 1]
Over12(s)  == [e2 |-> s.e2 - 1, e3 |-> s.e3 - 1, e5 |-> s.e5 + 1]

ScaleMin(a, b) == IF RLess(ScaleVal(b), ScaleVal(a)) THEN b ELSE a
ScaleMax(a, b) == IF RLess(ScaleVal(a), ScaleVal(b)) THEN b ELSE a

\* Math.min(s * 1.2, 3)
ZoomInNoClamp(s) == Times12(s)
ZoomInScale(s) == ScaleMin(Times12(s), MaxScale)

\* Math.max(s / 1.2, 0.3)
ZoomOutScale(s) == ScaleMax(Over12(s), MinScale)

-----------------------------------------------------------------------------
(* The values exchanged with the graph service (api.graph.get,              *)
(* api.graph.search): GraphNode, GraphEdge, GraphData.  Of a node only id   *)
(* and label are kept (type and properties travel with the label); "n99"    *)
(* is an id the service never delivers as a node.                           *)

MaxNodes == 2       \* most nodes in one response
MaxInflight == 2    \* most calls of loadGraph awaiting their response
MaxSearches == 1    \* most calls of handleSearch awaiting their response

NodeIds == {"n1", "n2", "n3"}

N(id, label) == [id |-> id, label |-> label]

NoNode == N("none", "")

NodePool == {N("n1", "A"), N("n2", "A"), N("n3", "A")}

E(id, s, t) == [id |-> id, source |-> s, target |-> t, type |-> "relates"]

\* the edge lists of the responses: none; one edge; two edges between the
\* same pair; an edge between other nodes beside an edge to n99
EdgeLists ==
    { << >>,
      << E("e1", "n1", "n2") >>,
      << E("e1", "n1", "n2"), E("e3", "n2", "n1") >>,
      << E("e4", "n2", "n3"), E("e2", "n1", "n99") >> }

SeqsUpTo(S, n) == UNION {[1..k -> S] : k \in 0..n}

DistinctIds(s) == \A i, j \in 1..Len(s) : i # j => s[i].id # s[j].id

NodeLists == {s \in SeqsUpTo(NodePool, MaxNodes) : DistinctIds(s)}

\* the responses of api.graph.get
Payloads == [nodes : NodeLists, edges : EdgeLists]

\* the responses of api.graph.search (at most one candidate)
Candidates == {s \in SeqsUpTo(NodePool, 1) : TRUE}

EmptyGraph == [nodes |-> << >>, edges |-> << >>]    \* useState({nodes: [], edges: []})

Range(s) == {s[i] : i \in 1..Len(s)}

IdsOf(g) == {g.nodes[i].id : i \in 1..Len(g.nodes)}

RemoveAt(s, i) == SubSeq(s, 1, i - 1) \o SubSeq(s, i + 1, Len(s))

DefaultDepth == 2   \* loadGraph(nodeId, depth = 2)

\* String.prototype.trim on the queries of the model
Trim(q) == IF q \in {"", " "} THEN "" ELSE q

Queries == {" ", "A"}

-----------------------------------------------------------------------------
(* Derived data of a render, graph-viewer.tsx:102-129.                      *)

RECURSIVE Gcd(_, _)
Gcd(a, b) == IF b = 0 THEN a ELSE Gcd(b, a % b)

(* calculateNodePositions: node index of nodeCount sits at angle            *)
(* 2*pi*index/nodeCount on a circle whose centre and radius depend only on  *)
(* the container.  A position is kept as that fraction of a turn, reduced:  *)
(* two positions are the same point exactly when the fractions are equal.   *)
CirclePositionBySize(index, nodeCount) == [num |-> 0, den |-> nodeCount]
CirclePosition(index, nodeCount) ==
    LET g == Gcd(index, nodeCount)
    IN  [num |-> index \div g, den |-> nodeCount \div g]

\* positions[node.id] for the nodes of g (a later node of the same id wins)
calculateNodePositions(g) ==
    [id \in IdsOf(g) |->
        LET i == CHOOSE k \in 1..Len(g.nodes) :
                    /\ g.nodes[k].id = id
                    /\ \A m \in 1..Len(g.nodes) : g.nodes[m].id = id => m <= k
        IN  CirclePosition(i - 1, Len(g.nodes))]

nodePositions == calculateNodePositions(graphData)

\* the edges the svg draws: `if (!source || !target) return null`
RenderedEdges(g) ==
    SelectSeq(g.edges,
              LAMBDA e : e.source \in DOMAIN calculateNodePositions(g)
                         /\ e.target \in DOMAIN calculateNodePositions(g))

RECURSIVE MapOther(_, _)
MapOther(es, nodeId) ==
    IF es = << >> THEN << >>
    ELSE << IF Head(es).source = nodeId THEN Head(es).target ELSE Head(es).source >>
             \o MapOther(Tail(es), nodeId)

getConnectedNodes(g, nodeId) ==
    MapOther(SelectSeq(g.edges, LAMBDA e : e.source = nodeId \/ e.target = nodeId),
             nodeId)

-----------------------------------------------------------------------------
(* Browser extension: tabs and time.  A URL is the sequence of its          *)
(* characters; a tab without the url property has the empty one.            *)

CAPTURE_INTERVAL_MS == 2000

\* Date.now() when the script starts: the epoch lies further back than the
\* interval, so the first capture is never held back by lastCaptureTime = 0
StartTime == 10000

\* how far the clock runs, and by how much it moves between two events
MaxElapsed == 4000
Advances == {1000, 1999, 2000}

MaxGets == 1

Tab(id, url) == [id |-> id, url |-> url]

NoTab == Tab(0, << >>)

ChromePrefix == << "c", "h", "r", "o", "m", "e", ":", "/", "/" >>

Tabs ==
    { Tab(1, << "h", "t", "t", "p", "s", ":", "/", "/", "a" >>),
      Tab(2, ChromePrefix \o << "e", "x", "t" >>),
      Tab(3, << >>),
      Tab(4, << "c", "h", "r", "o", "m", "e", "-", "x", ":", "/", "/", "a" >>) }

\* String.prototype.startsWith
startsWith(str, prefix) ==
    /\ Len(str) >= Len(prefix)
    /\ SubSeq(str, 1, Len(prefix)) = prefix

-----------------------------------------------------------------------------
(* Initial state: the page is opened at /graph or at /graph?nodeId=<id>.    *)

NoEvent ==
    [op |-> "init", via |-> "", stale |-> FALSE, same |-> FALSE,
     rewrites |-> << FALSE, FALSE >>, at |-> [x |-> 0, y |-> 0],
     n |-> 0, tab |-> NoTab]

Ev(op) == [NoEvent EXCEPT !.op = op]

InitAt(ids) ==
    /\ graphData = EmptyGraph
    /\ loading = FALSE
    /\ error = "null"
    /\ selectedNode = NoNode
    /\ scale = ScaleOne
    /\ position = [x |-> 0, y |-> 0]
    /\ isDragging = FALSE
    /\ dragStart = [x |-> 0, y |-> 0]
    /\ inflight = << >>
    /\ effectDep = "unmounted"
    /\ initialNodeId \in ids
    /\ searchQuery = ""
    /\ searchResults = << >>
    /\ searching = FALSE
    /\ pageSelected = NoNode
    /\ depth = "2"
    /\ searches = 0
    /\ lastCaptureTime = 0
    /\ clock = StartTime
    /\ posts = << >>
    /\ getting = << >>
    /\ last = NoEvent
    /\ lastData = EmptyGraph

Init == InitAt(NodeIds \cup {"none"})

-----------------------------------------------------------------------------
(* GraphViewer: loading the graph.                                          *)

\* a call of loadGraph up to its await (lines 47-50); a request is marked
\* superseded once a later call of the same kind is made
Supersede(reqs, via) ==
    [i \in 1..Len(reqs) |->
        IF reqs[i].via = via THEN [reqs[i] EXCEPT !.superseded = TRUE] ELSE reqs[i]]

loadGraph(nodeId, via) ==
    /\ Len(inflight) < MaxInflight
    /\ loading' = TRUE
    /\ error' = "null"
    /\ inflight' = Append(Supersede(inflight, via),
                          [nodeId |-> nodeId, depth |-> DefaultDepth, via |-> via,
                           superseded |-> FALSE])

\* useEffect(..., [initialNodeId, loadGraph]) (lines 59-63): runs after the
\* mount and after every render in which initialNodeId has changed
InitialNodeEffect ==
    /\ effectDep # initialNodeId
    /\ effectDep' = initialNodeId
    /\ IF initialNodeId # "none"
         THEN loadGraph(initialNodeId, "initial")
         ELSE UNCHANGED << loading, error, inflight >>
    /\ last' = Ev("effect")
    /\ UNCHANGED << capture, lastData, graphData, selectedNode, viewport, pageState >>

\* setGraphData(data) (line 51): what the graph is after a response
ApplyAppend(g, data) ==
    [nodes |-> g.nodes \o data.nodes, edges |-> g.edges \o data.edges]
ApplyFirstWins(g, data) ==
    [nodes |-> g.nodes \o SelectSeq(data.nodes, LAMBDA b : b.id \notin IdsOf(g)),
     edges |-> g.edges
               \o SelectSeq(data.edges,
                            LAMBDA b : \A a \in Range(g.edges) : a.id # b.id)]
ApplyEdgesFirst(g, data) ==
    [nodes |-> data.nodes,
     edges |-> SelectSeq(data.edges,
                         LAMBDA e : e.source \in IdsOf(g) /\ e.target \in IdsOf(g))]
ApplyResponse(g, data) == data

\* api.graph.get(nodeId, depth) answers with the neighborhood of nodeId, which
\* holds the node itself; its edges may name nodes it does not deliver
Answers(req, data) == req.nodeId \in IdsOf(data)

\* whether data delivers a node, and whether it delivers an edge, under an id
\* that g holds with other content
Rewrites(g, data) ==
    << \E a \in Range(g.nodes), b \in Range(data.nodes) : a.id = b.id /\ a # b,
       \E a \in Range(g.edges), b \in Range(data.edges) : a.id = b.id /\ a # b >>

\* the await of line 50 returns data: lines 51 and 55
FetchOkFits(i, data) ==
    /\ Answers(inflight[i], data)
    /\ graphData' = ApplyResponse(graphData, data)
    /\ loading' = FALSE
    /\ inflight' = RemoveAt(inflight, i)
    /\ last' = [Ev("fetchOk") EXCEPT !.via = inflight[i].via,
                                     !.stale = inflight[i].superseded,
                                     !.same = (lastData = data),
                                     !.rewrites = Rewrites(graphData, data)]
    /\ lastData' = data
    /\ scale' = ScaleOne
    /\ position' = [x |-> 0, y |-> 0]
    /\ UNCHANGED << capture, error, selectedNode, effectDep, isDragging, dragStart, pageState >>
FetchOk(i, data) ==
    /\ Answers(inflight[i], data)
    /\ graphData' = ApplyResponse(graphData, data)
    /\ loading' = FALSE
    /\ inflight' = RemoveAt(inflight, i)
    /\ last' = [Ev("fetchOk") EXCEPT !.via = inflight[i].via,
                                     !.stale = inflight[i].superseded,
                                     !.same = (lastData = data),
                                     !.rewrites = Rewrites(graphData, data)]
    /\ lastData' = data
    /\ UNCHANGED << capture, error, selectedNode, effectDep, viewport, pageState >>

\* the await of line 50 throws: lines 53 and 55
FetchFailClears(i) ==
    /\ graphData' = EmptyGraph
    /\ error' = "Failed to load graph"
    /\ loading' = FALSE
    /\ inflight' = RemoveAt(inflight, i)
    /\ last' = [Ev("fetchFail") EXCEPT !.via = inflight[i].via,
                                       !.stale = inflight[i].superseded]
    /\ UNCHANGED << capture, lastData, selectedNode, effectDep, viewport, pageState >>
FetchFail(i) ==
    /\ error' = "Failed to load graph"
    /\ loading' = FALSE
    /\ inflight' = RemoveAt(inflight, i)
    /\ last' = [Ev("fetchFail") EXCEPT !.via = inflight[i].via,
                                       !.stale = inflight[i].superseded]
    /\ UNCHANGED << capture, graphData, lastData, selectedNode, effectDep, viewport,
                    pageState >>

-----------------------------------------------------------------------------
(* GraphViewer: clicks.                                                     *)

\* handleNodeClick (lines 92-95); onNodeSelect is GraphPage's setSelectedNode
handleNodeClick(node) ==
    /\ selectedNode' = node
    /\ pageSelected' = node

\* onClick of a drawn node (line 223).  While loading is true the overlay of
\* lines 164-168 (absolute inset-0 z-10) lies over the layer of the nodes and
\* takes the pointer events, so a drawn node is clicked only when it is false.
NodeClick(node) ==
    /\ ~loading
    /\ node \in Range(graphData.nodes)
    /\ handleNodeClick(node)
    /\ last' = Ev("click")
    /\ UNCHANGED << capture, lastData, graphData, loading, error, inflight, effectDep, viewport,
                    initialNodeId, searchQuery, searchResults, searching, depth,
                    searches >>

\* onClick of an entry of the Connected Nodes list (lines 301-308)
ConnectedNodeClick(k) ==
    /\ selectedNode # NoNode
    /\ k \in 1..Len(getConnectedNodes(graphData, selectedNode.id))
    /\ LET nodeId == getConnectedNodes(graphData, selectedNode.id)[k]
           found  == {i \in 1..Len(graphData.nodes) : graphData.nodes[i].id = nodeId}
       IN  /\ found # {}
           /\ handleNodeClick(graphData.nodes[CHOOSE i \in found :
                                                \A j \in found : i <= j])
    /\ last' = Ev("connectedClick")
    /\ UNCHANGED << capture, lastData, graphData, loading, error, inflight, effectDep, viewport,
                    initialNodeId, searchQuery, searchResults, searching, depth,
                    searches >>

(* A click that reaches the render before a response: the continuation of   *)
(* loadGraph has called setGraphData(data) and setLoading(false), and       *)
(* before React commits the next render a click is dispatched on what the   *)
(* last committed render shows (a node element when it shows no overlay, or *)
(* an entry of the Connected Nodes list), with the node of that render;     *)
(* both updates are committed together.  Taken only for a node that the     *)
(* response does not hold.                                                  *)
ClickableNodes ==
    {node \in Range(graphData.nodes) :
        \/ ~loading
        \/ /\ selectedNode # NoNode
           /\ node.id \in Range(getConnectedNodes(graphData, selectedNode.id))}

StaleNodeClick(i, data, node) ==
    /\ node \in ClickableNodes
    /\ node.id \notin IdsOf(data)
    /\ Answers(inflight[i], data)
    /\ graphData' = ApplyResponse(graphData, data)
    /\ loading' = FALSE
    /\ inflight' = RemoveAt(inflight, i)
    /\ lastData' = data
    /\ handleNodeClick(node)
    /\ last' = [Ev("staleClick") EXCEPT !.via = inflight[i].via]
    /\ UNCHANGED << capture, error, effectDep, viewport, initialNodeId, searchQuery,
                    searchResults, searching, depth, searches >>

\* handleNodeDoubleClick (lines 97-99), onDoubleClick of a drawn node
NodeDoubleClick(node) ==
    /\ ~loading
    /\ node \in Range(graphData.nodes)
    /\ loadGraph(node.id, "expand")
    /\ last' = Ev("doubleClick")
    /\ UNCHANGED << capture, lastData, graphData, selectedNode, effectDep, viewport, pageState >>

\* the Expand Neighbors button (lines 319-324)
ExpandNeighbors ==
    /\ selectedNode # NoNode
    /\ loadGraph(selectedNode.id, "expand")
    /\ last' = Ev("expandButton")
    /\ UNCHANGED << capture, lastData, graphData, selectedNode, effectDep, viewport, pageState >>

\* the X button of the details panel (line 271)
CloseDetails ==
    /\ selectedNode # NoNode
    /\ selectedNode' = NoNode
    /\ last' = Ev("close")
    /\ UNCHANGED << capture, lastData, graphData, loading, error, inflight, effectDep, viewport,
                    pageState >>

-----------------------------------------------------------------------------
(* GraphPage: search box, candidate list, depth selector.                   *)

\* onChange of the search input (line 73)
TypeQuery(q) ==
    /\ searchQuery' = q
    /\ last' = Ev("type")
    /\ UNCHANGED << capture, lastData, viewerData, viewport, initialNodeId, searchResults, searching,
                    pageSelected, depth, searches >>

\* handleSearch up to its await (lines 29-34)
handleSearch ==
    /\ searches < MaxSearches
    /\ IF Trim(searchQuery) = ""
         THEN /\ last' = Ev("searchIgnored")
              /\ UNCHANGED << searching, searches >>
         ELSE /\ searching' = TRUE
              /\ searches' = searches + 1
              /\ last' = Ev("search")
    /\ UNCHANGED << capture, lastData, viewerData, viewport, initialNodeId, searchQuery, searchResults,
                    pageSelected, depth >>

\* the await of line 34 returns results: lines 35 and 39
SearchOkShows(results) ==
    /\ searches > 0
    /\ searchResults' = results
    /\ searching' = FALSE
    /\ searches' = searches - 1
    /\ graphData' = [nodes |-> results, edges |-> << >>]
    /\ last' = Ev("searchOk")
    /\ UNCHANGED << capture, lastData, loading, error, selectedNode, inflight, effectDep,
                    viewport, initialNodeId, searchQuery, pageSelected, depth >>
SearchOk(results) ==
    /\ searches > 0
    /\ searchResults' = results
    /\ searching' = FALSE
    /\ searches' = searches - 1
    /\ last' = Ev("searchOk")
    /\ UNCHANGED << capture, lastData, viewerData, viewport, initialNodeId, searchQuery, pageSelected,
                    depth >>

\* the await of line 34 throws: lines 37 and 39
SearchFail ==
    /\ searches > 0
    /\ searching' = FALSE
    /\ searches' = searches - 1
    /\ last' = Ev("searchFail")
    /\ UNCHANGED << capture, lastData, viewerData, viewport, initialNodeId, searchQuery, searchResults,
                    pageSelected, depth >>

\* handleNodeSelect (lines 43-49); router.push makes node.id the nodeId
\* parameter, hence the initialNodeId of the next render
handleNodeSelect(node) ==
    /\ node \in Range(searchResults)
    /\ pageSelected' = node
    /\ searchResults' = << >>
    /\ searchQuery' = node.label
    /\ initialNodeId' = node.id
    /\ last' = Ev("select")
    /\ UNCHANGED << capture, lastData, viewerData, viewport, searching, depth, searches >>

\* onValueChange of the depth Select (line 100)
setDepth(d) ==
    /\ depth' = d
    /\ d # depth
    /\ last' = Ev("depth")
    /\ UNCHANGED << capture, lastData, viewerData, viewport, initialNodeId, searchQuery, searchResults,
                    searching, pageSelected, searches >>

-----------------------------------------------------------------------------
(* GraphViewer: zoom and pan (lines 65-90, bound at lines 136-162).         *)

MaxCoord == 1       \* pointer coordinates are 0..MaxCoord on each axis
MaxPan == 1         \* the pan offset is kept within -MaxPan..MaxPan on each axis

Pointer == [x : 0..MaxCoord, y : 0..MaxCoord]

InPanRange(q) == q.x \in -MaxPan..MaxPan /\ q.y \in -MaxPan..MaxPan

\* the number of handleZoomIn calls in a row, counted from a scale of 1
ZoomInCount ==
    IF scale = ScaleOne THEN 1
    ELSE IF last.op = "zoomIn" /\ last.n \in 1..2 THEN last.n + 1
    ELSE 0

\* setScale(s => z) of lines 65 and 66, recorded as event ev
setScale(z, ev) ==
    /\ scale' = z
    /\ last' = ev
    /\ UNCHANGED << capture, position, isDragging, dragStart, viewerData, pageState, lastData >>

handleZoomIn ==
    setScale(ZoomInScale(scale), [Ev("zoomIn") EXCEPT !.n = ZoomInCount])

handleZoomOutRecenters ==
    /\ scale' = ZoomOutScale(scale)
    /\ position' = [x |-> 0, y |-> 0]
    /\ last' = Ev("zoomOut")
    /\ UNCHANGED << capture, isDragging, dragStart, viewerData, pageState, lastData >>
handleZoomOut ==
    setScale(ZoomOutScale(scale), Ev("zoomOut"))

\* whether handleFit has something to reset (history)
FitCount == IF scale = ScaleOne /\ position = [x |-> 0, y |-> 0] THEN 0 ELSE 1

handleFitScaleOnly ==
    /\ scale' = ScaleOne
    /\ last' = [Ev("fit") EXCEPT !.n = FitCount]
    /\ UNCHANGED << capture, position, isDragging, dragStart, viewerData, pageState, lastData >>
handleFitClearsGraph ==
    /\ scale' = ScaleOne
    /\ position' = [x |-> 0, y |-> 0]
    /\ graphData' = EmptyGraph
    /\ last' = [Ev("fit") EXCEPT !.n = FitCount]
    /\ UNCHANGED << capture, isDragging, dragStart, loading, error, selectedNode, inflight,
                    effectDep, pageState, lastData >>
handleFit ==
    /\ scale' = ScaleOne
    /\ position' = [x |-> 0, y |-> 0]
    /\ last' = [Ev("fit") EXCEPT !.n = FitCount]
    /\ UNCHANGED << capture, isDragging, dragStart, viewerData, pageState, lastData >>

\* every target of a mousedown on the canvas is the canvas or inside it (the
\* overlay of lines 164-168 too), so the condition of line 73 holds
handleMouseDownAnchorsPointer(e) ==
    /\ isDragging' = TRUE
    /\ dragStart' = [x |-> e.x, y |-> e.y]
    /\ last' = [Ev("mouseDown") EXCEPT !.at = e]
    /\ UNCHANGED << capture, scale, position, viewerData, pageState, lastData >>
handleMouseDownUnlessLoading(e) ==
    /\ ~loading
    /\ isDragging' = TRUE
    /\ dragStart' = [x |-> e.x - position.x, y |-> e.y - position.y]
    /\ last' = [Ev("mouseDown") EXCEPT !.at = e]
    /\ UNCHANGED << capture, scale, position, viewerData, pageState, lastData >>
handleMouseDown(e) ==
    /\ isDragging' = TRUE
    /\ dragStart' = [x |-> e.x - position.x, y |-> e.y - position.y]
    /\ last' = [Ev("mouseDown") EXCEPT !.at = e]
    /\ UNCHANGED << capture, scale, position, viewerData, pageState, lastData >>

handleMouseMoveAlways(e) ==
    /\ position' = [x |-> e.x - dragStart.x, y |-> e.y - dragStart.y]
    /\ InPanRange(position')
    /\ last' = IF isDragging THEN [Ev("mouseMove") EXCEPT !.n = 1, !.at = e]
                          ELSE Ev("mouseMove")
    /\ UNCHANGED << capture, scale, isDragging, dragStart, viewerData, pageState, lastData >>
handleMouseMove(e) ==
    /\ IF isDragging
         THEN /\ position' = [x |-> e.x - dragStart.x, y |-> e.y - dragStart.y]
              /\ InPanRange(position')
         ELSE UNCHANGED position
    /\ last' = IF isDragging THEN [Ev("mouseMove") EXCEPT !.n = 1, !.at = e]
                          ELSE Ev("mouseMove")
    /\ UNCHANGED << capture, scale, isDragging, dragStart, viewerData, pageState, lastData >>

\* onMouseUp and onMouseLeave
handleMouseUp ==
    /\ isDragging' = FALSE
    /\ last' = Ev("mouseUp")
    /\ UNCHANGED << capture, scale, position, dragStart, viewerData, pageState, lastData >>

(* The transform of line 179, translate(position) scale(scale): a point p   *)
(* of the graph layer is drawn at p * scale + position (coordinates taken   *)
(* from the origin of the transform).  The viewer has no inverse: clicks    *)
(* are dispatched by the DOM.  toGraph is the inverse the design names.     *)
(* Points have rational coordinates; s is the scale as a rational.          *)
toScreenScaleLast(p, s, off) ==
    [x |-> RMul(RAdd(p.x, RFromInt(off.x)), s),
     y |-> RMul(RAdd(p.y, RFromInt(off.y)), s)]
toScreen(p, s, off) ==
    [x |-> RAdd(RMul(p.x, s), RFromInt(off.x)),
     y |-> RAdd(RMul(p.y, s), RFromInt(off.y))]

toGraph(q, s, off) ==
    [x |-> RDiv(RSub(q.x, RFromInt(off.x)), s),
     y |-> RDiv(RSub(q.y, RFromInt(off.y)), s)]

-----------------------------------------------------------------------------
(* Browser extension: background.js.  The script runs on one thread: the    *)
(* body of captureContext up to its await of fetch is one step, taken at    *)
(* one reading of the clock.                                                *)

\* time passes between two events
Advance(d) ==
    /\ clock + d <= StartTime + MaxElapsed
    /\ clock' = clock + d
    /\ last' = Ev("advance")
    /\ UNCHANGED << lastCaptureTime, posts, getting, viewerData, viewport, pageState,
                    lastData >>

\* the test of line 10
Capturable(tab) ==
    /\ tab # NoTab
    /\ tab.url # << >>
    /\ ~startsWith(tab.url, ChromePrefix)

\* captureContext up to the call of fetch (lines 9-35): the guards of lines
\* 10 and 13, the stamp of line 14, the POST of line 29
captureContext(tab) ==
    IF ~Capturable(tab)
      THEN UNCHANGED << lastCaptureTime, posts >>
      ELSE LET now == clock
           IN  IF now - lastCaptureTime < CAPTURE_INTERVAL_MS
                 THEN UNCHANGED << lastCaptureTime, posts >>
                 ELSE /\ lastCaptureTime' = now
                      /\ posts' = Append(posts, [at |-> now, tabId |-> tab.id,
                                                 status |-> "pending"])

\* the fetch of line 29 resolves with response.ok (lines 37-38)
PostOk(i) ==
    /\ posts[i].status = "pending"
    /\ posts' = [posts EXCEPT ![i].status = "ok"]
    /\ last' = Ev("postOk")
    /\ UNCHANGED << lastCaptureTime, clock, getting, viewerData, viewport, pageState,
                    lastData >>

\* it resolves with another status (lines 39-41) or rejects (lines 42-44)
PostFailReleases(i, how) ==
    /\ posts[i].status = "pending"
    /\ posts' = [posts EXCEPT ![i].status = how]
    /\ lastCaptureTime' = 0
    /\ last' = Ev("postFail")
    /\ UNCHANGED << clock, getting, viewerData, viewport, pageState, lastData >>
PostFail(i, how) ==
    /\ posts[i].status = "pending"
    /\ posts' = [posts EXCEPT ![i].status = how]
    /\ last' = Ev("postFail")
    /\ UNCHANGED << lastCaptureTime, clock, getting, viewerData, viewport, pageState,
                    lastData >>

\* chrome.tabs.onUpdated listener (lines 56-60)
onUpdated(status, tab) ==
    /\ IF status = "complete"
         THEN captureContext(tab)
         ELSE UNCHANGED << lastCaptureTime, posts >>
    /\ last' = [Ev("tabUpdated") EXCEPT !.via = status, !.tab = tab]
    /\ UNCHANGED << clock, getting, viewerData, viewport, pageState, lastData >>

\* chrome.tabs.onActivated listener up to its await (lines 47-49)
onActivated(tabId) ==
    /\ Len(getting) < MaxGets
    /\ getting' = Append(getting, tabId)
    /\ last' = Ev("tabActivated")
    /\ UNCHANGED << lastCaptureTime, clock, posts, viewerData, viewport, pageState,
                    lastData >>

\* chrome.tabs.get resolves (line 50)
TabGetOk(i, tab) ==
    /\ tab.id = getting[i]
    /\ getting' = RemoveAt(getting, i)
    /\ captureContext(tab)
    /\ last' = [Ev("tabGot") EXCEPT !.via = "complete", !.tab = tab]
    /\ UNCHANGED << clock, viewerData, viewport, pageState, lastData >>

\* chrome.tabs.get rejects (lines 51-53)
TabGetFail(i) ==
    /\ getting' = RemoveAt(getting, i)
    /\ last' = Ev("tabGetFailed")
    /\ UNCHANGED << lastCaptureTime, clock, posts, viewerData, viewport, pageState,
                    lastData >>

-----------------------------------------------------------------------------
(* Specifications.  Spec is the viewer fed by the graph service; SpecPage   *)
(* adds the search box of the page, with responses of at most one node;     *)
(* SpecView is zoom and pan.                                                *)

PageNodes == {N("n1", "A"), N("n2", "A")}

PagePayloads ==
    {d \in Payloads : /\ Len(d.nodes) <= 1
                      /\ Range(d.nodes) \subseteq PageNodes
                      /\ Len(d.edges) <= 1}

PageCandidates == {r \in Candidates : Range(r) \subseteq PageNodes}

Next ==
    \/ InitialNodeEffect
    \/ \E i \in 1..Len(inflight) : \E data \in Payloads : FetchOk(i, data)
    \/ \E i \in 1..Len(inflight) : FetchFail(i)
    \/ \E node \in NodePool : NodeClick(node)
    \/ \E k \in 1..2 : ConnectedNodeClick(k)
    \/ \E node \in NodePool : NodeDoubleClick(node)
    \/ ExpandNeighbors
    \/ CloseDetails

NextPage ==
    \/ InitialNodeEffect
    \/ \E i \in 1..Len(inflight) : \E data \in PagePayloads : FetchOk(i, data)
    \/ \E i \in 1..Len(inflight) : FetchFail(i)
    \/ \E node \in PageNodes : NodeClick(node)
    \/ \E q \in Queries : TypeQuery(q)
    \/ handleSearch
    \/ \E results \in PageCandidates : SearchOk(results)
    \/ SearchFail
    \/ \E node \in PageNodes : handleNodeSelect(node)
    \/ \E d \in {"1", "2", "3"} : setDepth(d)

NextView ==
    \/ handleZoomIn
    \/ handleZoomOut
    \/ handleFit
    \/ \E e \in Pointer : handleMouseDown(e)
    \/ \E e \in Pointer : handleMouseMove(e)
    \/ handleMouseUp

Spec == Init /\ [][Next]_vars

InitPage == InitAt({"none", "n1"})

SpecPage == InitPage /\ [][NextPage]_vars

InitView == InitAt({"none"})

SpecView == InitView /\ [][NextView]_vars

(* SpecLoad is zoom and pan while the graph of /graph?nodeId=n1 is being    *)
(* loaded; SpecFrame is the search box and the loading of the graph with    *)
(* the zoom buttons in use.                                                 *)
LoadPayloads == {d \in PagePayloads : d.nodes = << N("n1", "A") >> /\ d.edges = << >>}

NextLoad ==
    \/ InitialNodeEffect
    \/ \E i \in 1..Len(inflight) : \E data \in LoadPayloads : FetchOk(i, data)
    \/ handleZoomIn
    \/ handleZoomOut
    \/ handleFit
    \/ \E e \in Pointer : handleMouseDown(e)
    \/ \E e \in Pointer : handleMouseMove(e)
    \/ handleMouseUp

InitLoad == InitAt({"n1"})

SpecLoad == InitLoad /\ [][NextLoad]_vars

(* SpecStale is the viewer with clicks that reach the render before a       *)
(* response.                                                                *)
NextStale ==
    \/ InitialNodeEffect
    \/ \E i \in 1..Len(inflight) : \E data \in Payloads : FetchOk(i, data)
    \/ \E node \in NodePool : NodeClick(node)
    \/ ExpandNeighbors
    \/ \E node \in ClickableNodes :
          \E i \in 1..Len(inflight) : \E data \in Payloads : StaleNodeClick(i, data, node)

InitStale == InitAt({"n1"})

SpecStale == InitStale /\ [][NextStale]_vars

(* SpecMerge is the viewer fed with responses that deliver node n1 under    *)
(* two labels and edge e1 with two pairs of endpoints.                      *)
LabelPool == NodePool \cup {N("n1", "B")}

MergeEdgeLists == EdgeLists \cup { << E("e1", "n2", "n1") >> }

MergePayloads ==
    [nodes : {s \in SeqsUpTo(LabelPool, MaxNodes) : DistinctIds(s)},
     edges : MergeEdgeLists]

NextMerge ==
    \/ InitialNodeEffect
    \/ \E i \in 1..Len(inflight) : \E data \in MergePayloads : FetchOk(i, data)
    \/ \E i \in 1..Len(inflight) : FetchFail(i)
    \/ \E node \in LabelPool : NodeDoubleClick(node)

InitMerge == InitAt({"n1"})

SpecMerge == InitMerge /\ [][NextMerge]_vars

NextFrame ==
    \/ InitialNodeEffect
    \/ \E i \in 1..Len(inflight) : \E data \in PagePayloads : FetchOk(i, data)
    \/ \E i \in 1..Len(inflight) : FetchFail(i)
    \/ TypeQuery("A")
    \/ handleSearch
    \/ \E results \in PageCandidates : SearchOk(results)
    \/ SearchFail
    \/ \E node \in PageNodes : handleNodeSelect(node)
    \/ handleZoomIn
    \/ handleFit

InitFrame == InitAt({"n1"})

SpecFrame == InitFrame /\ [][NextFrame]_vars

\* the background script of the extension, the graph page not being open
NextCapture ==
    \/ \E d \in Advances : Advance(d)
    \/ \E status \in {"loading", "complete"} : \E tab \in Tabs : onUpdated(status, tab)
    \/ \E tab \in Tabs : onActivated(tab.id)
    \/ \E i \in 1..Len(getting) : \E tab \in Tabs : TabGetOk(i, tab)
    \/ \E i \in 1..Len(getting) : TabGetFail(i)
    \/ \E i \in 1..Len(posts) : PostOk(i)
    \/ \E i \in 1..Len(posts) : \E how \in {"notOk", "error"} : PostFail(i, how)

InitCapture == InitAt({"none"})

SpecCapture == InitCapture /\ [][NextCapture]_vars

-----------------------------------------------------------------------------
(* Properties.                                                              *)

\* a step of the handler that records op in the history
Step(op) == last'.op = op /\ vars' # vars

EdgeIdsOf(g) == {g.edges[i].id : i \in 1..Len(g.edges)}

HasEndpoints(e, g) == e.source \in IdsOf(g) /\ e.target \in IdsOf(g)

\* the edges of a response whose endpoints are both nodes of the response
ValidEdges(data) == SelectSeq(data.edges, LAMBDA e : HasEndpoints(e, data))

(* C1.  Edge-endpoint invariant: in every reachable state every edge held   *)
(* in graphData has its source and its target among the ids of the nodes of *)
(* graphData (so an incoming edge with a missing endpoint is not held).     *)
C1_EdgeEndpoints ==
    \A e \in Range(graphData.edges) : HasEndpoints(e, graphData)

(* C2.  Additive expansion: when the response of a fetch issued by a        *)
(* double-click or by Expand Neighbors is applied, every node id and every  *)
(* edge id of the graph before is still in the graph after.                 *)
C2_AdditiveExpansion ==
    [][ (Step("fetchOk") /\ last'.via = "expand")
            => /\ IdsOf(graphData) \subseteq IdsOf(graphData')
               /\ EdgeIdsOf(graphData) \subseteq EdgeIdsOf(graphData') ]_vars

(* C3.  Stale responses are never applied: the response that was last      *)
(* written into graphData did not belong to a fetch that a later fetch of   *)
(* the same kind had superseded before the response arrived.                *)
C3_StaleNeverApplied ==
    ~(last.op = "fetchOk" /\ last.stale)

(* C4.  Top-level load replaces: choosing a candidate resets the viewer     *)
(* (graph empty, selection unset) and makes a fetch of the candidate due;   *)
(* and once the response of a top-level fetch is applied the graph holds    *)
(* exactly the nodes of the response and its edges with both endpoints.     *)
C4_TopLevelLoadReplaces ==
    [][ /\ Step("select")
            => /\ graphData' = EmptyGraph
               /\ selectedNode' = NoNode
               /\ effectDep' # initialNodeId'
        /\ (Step("fetchOk") /\ last'.via = "initial")
            => /\ graphData'.nodes = lastData'.nodes
               /\ graphData'.edges = ValidEdges(lastData') ]_vars

(* C5.  Reset clears: right after the step a fresh top-level search         *)
(* performs (a candidate is chosen), nodes and edges are empty and no node  *)
(* is selected in the viewer.                                               *)
C5_ResetClears ==
    [][ Step("select")
            => /\ graphData'.nodes = << >>
               /\ graphData'.edges = << >>
               /\ selectedNode' = NoNode ]_vars

(* C6.  Merge idempotence: applying a response whose data is that of the    *)
(* response applied by the step before leaves nodes and edges as they are.  *)
C6_MergeIdempotent ==
    [][ (Step("fetchOk") /\ last'.same) => graphData' = graphData ]_vars

C6_Witness ==
    /\ last.op = "fetchOk"
    /\ last.same
    /\ graphData.nodes # << >>
    /\ graphData.edges # << >>

(* C7.  Incremental layout stability: a node that has a position before a   *)
(* response is applied has the same position after it.                      *)
C7_LayoutStable ==
    [][ Step("fetchOk")
            => \A id \in IdsOf(graphData) \cap IdsOf(graphData') :
                  calculateNodePositions(graphData')[id]
                      = calculateNodePositions(graphData)[id] ]_vars

R(n, d) == RDiv(RFromInt(n), RFromInt(d))

RMin(a, b) == IF RLess(b, a) THEN b ELSE a
RMax(a, b) == IF RLess(a, b) THEN b ELSE a

ScaleInRange ==
    /\ ~RLess(ScaleVal(scale), R(3, 10))
    /\ ~RLess(R(3, 1), ScaleVal(scale))

C9_ZoomClamp ==
    /\ [](ScaleInRange)
    /\ []((last.op = "zoomIn" /\ last.n = 3) => REq(ScaleVal(scale), R(1728, 1000)))
    /\ [][ /\ Step("zoomIn")
               => REq(ScaleVal(scale'),
                      RMin(RMul(ScaleVal(scale), R(12, 10)), R(3, 1)))
           /\ Step("zoomOut")
               => REq(ScaleVal(scale'),
                      RMax(RDiv(ScaleVal(scale), R(12, 10)), R(3, 10))) ]_vars

C9_Witness == last.op = "zoomIn" /\ last.n = 3

(* C10.  Coordinate round-trip: at every reachable scale and offset,        *)
(* toGraph(toScreen(p)) is p for every point p.                             *)
P(a, b) == [x |-> RFromInt(a), y |-> RFromInt(b)]

Points == {P(0, 0), P(1, 0), P(0, 1), P(-1, 2), P(3, -2), P(-5, -7)}

SamePoint(p, q) == REq(p.x, q.x) /\ REq(p.y, q.y)

NeighborIds(g, nodeId) ==
    {e.target : e \in {f \in Range(g.edges) : f.source = nodeId}}
        \cup {e.source : e \in {f \in Range(g.edges) : f.target = nodeId}}

NoRepeats(s) == \A i, j \in 1..Len(s) : i # j => s[i] # s[j]

C11_ConnectedNodesOnce ==
    /\ selectedNode # NoNode
          => LET c == getConnectedNodes(graphData, selectedNode.id)
             IN  /\ Range(c) = NeighborIds(graphData, selectedNode.id)
                 /\ NoRepeats(c)
    /\ getConnectedNodes([nodes |-> << N("n1", "A"), N("n2", "A") >>,
                          edges |-> << E("e1", "n1", "n2") >>], "n1") = << "n2" >>


(* C12.  Selecting an absent node is a no-op: when handleNodeClick is       *)
(* given a node that is no node of the graph (the click was dispatched on   *)
(* the render before the response that removed it), the selection stays as  *)
(* it was and the graph is the one the response gave.                       *)
C12_SelectAbsentNoOp ==
    [][ Step("staleClick")
            => /\ selectedNode' = selectedNode
               /\ pageSelected' = pageSelected
               /\ graphData' = lastData' ]_vars


(* C13.  Pan gesture: the viewer is either idle or panning (isDragging);    *)
(* a mousedown on the canvas while idle starts panning, a mouseup (or the   *)
(* pointer leaving) while panning ends it, and a mousemove while idle       *)
(* leaves position, scale and isDragging as they are.                       *)
C13_PanStateMachine ==
    /\ [](isDragging \in BOOLEAN)
    /\ [][ /\ (Step("mouseDown") /\ ~isDragging) => isDragging'
           /\ (Step("mouseUp") /\ isDragging) => ~isDragging'
           /\ (Step("mouseMove") /\ ~isDragging)
                 => UNCHANGED << position, scale, isDragging >> ]_vars

C13_Witness ==
    /\ last.op = "mouseMove"
    /\ last.n = 0
    /\ ~isDragging
    /\ position # [x |-> 0, y |-> 0]


(* C14.  The viewport is never changed by data: issuing a search or a       *)
(* fetch, the arrival of a response of either (success or failure), the     *)
(* writing of a response into the graph and the choice of a candidate all   *)
(* leave scale and position (and the pan state) exactly as they were.       *)
DataOps ==
    {"effect", "doubleClick", "expandButton", "fetchOk", "fetchFail", "staleClick",
     "type", "search", "searchIgnored", "searchOk", "searchFail", "select"}

C14_ViewportFrame ==
    [][ (\E op \in DataOps : Step(op))
            => UNCHANGED << scale, position, isDragging, dragStart >> ]_vars

C14_Witness ==
    /\ last.op \in {"fetchOk", "fetchFail", "searchOk", "searchFail"}
    /\ scale # ScaleOne
    /\ graphData.nodes # << >>


(* C15.  The depth selector is consulted: every fetch issued by a           *)
(* double-click, by Expand Neighbors or by a top-level load carries the     *)
(* depth that the depth selector shows when the fetch is issued.            *)
DepthOf(d) == CASE d = "1" -> 1 [] d = "2" -> 2 [] d = "3" -> 3

C15_DepthConsulted ==
    [][ ( /\ Step("effect") \/ Step("doubleClick") \/ Step("expandButton")
          /\ Len(inflight') > Len(inflight) )
            => inflight'[Len(inflight')].depth = DepthOf(depth) ]_vars


(* C16.  Pan and zoom are never blocked by loading: in every state with a   *)
(* fetch in flight (or loading true) each of the zoom buttons and of the    *)
(* mouse handlers of the canvas can be taken (for the zoom buttons: the     *)
(* update of the scale they make), and a step of any of them changes        *)
(* scale, position and the pan state as a function of the viewport and the  *)
(* pointer alone.                                                           *)
Origin == [x |-> 0, y |-> 0]

C16_PanZoomNotBlocked ==
    /\ []( (loading \/ inflight # << >>)
              => /\ \E z \in {ZoomInScale(scale)} : ENABLED setScale(z, Ev("zoomIn"))
                 /\ \E z \in {ZoomOutScale(scale)} : ENABLED setScale(z, Ev("zoomOut"))
                 /\ ENABLED handleFit
                 /\ ENABLED (\E e \in Pointer : handleMouseDown(e))
                 /\ ENABLED (\E e \in Pointer : handleMouseMove(e))
                 /\ ENABLED handleMouseUp )
    /\ [][ /\ Step("zoomIn")
               => /\ scale' = ZoomInScale(scale)
                  /\ UNCHANGED << position, isDragging, dragStart >>
           /\ Step("zoomOut")
               => /\ scale' = ZoomOutScale(scale)
                  /\ UNCHANGED << position, isDragging, dragStart >>
           /\ Step("fit")
               => /\ scale' = ScaleOne
                  /\ position' = Origin
                  /\ UNCHANGED << isDragging, dragStart >>
           /\ Step("mouseDown")
               => /\ isDragging'
                  /\ \E e \in Pointer :
                        dragStart' = [x |-> e.x - position.x, y |-> e.y - position.y]
                  /\ UNCHANGED << scale, position >>
           /\ Step("mouseMove")
               => /\ IF isDragging
                       THEN \E e \in Pointer :
                               position' = [x |-> e.x - dragStart.x,
                                            y |-> e.y - dragStart.y]
                       ELSE UNCHANGED position
                  /\ UNCHANGED << scale, isDragging, dragStart >>
           /\ Step("mouseUp")
               => /\ ~isDragging'
                  /\ UNCHANGED << scale, position, dragStart >> ]_vars

C16_Witness ==
    /\ loading
    /\ inflight # << >>
    /\ last.op = "mouseMove"
    /\ last.n = 1
    /\ position # Origin
    /\ scale # ScaleOne


(* C17.  Search does not touch the graph: typing a query, issuing a search  *)
(* (or having an empty query ignored) and receiving its candidates or its   *)
(* failure leave nodes, edges and the selection of the viewer unchanged     *)
(* and make no fetch due; of the steps of the search box only the choice    *)
(* of a candidate does that.                                                *)
C17_SearchFrame ==
    [][ (\E op \in {"type", "search", "searchIgnored", "searchOk", "searchFail"} :
            Step(op))
            => UNCHANGED << graphData, selectedNode, inflight, initialNodeId,
                            effectDep >> ]_vars

C17_Witness ==
    /\ last.op = "searchOk"
    /\ searchResults # << >>
    /\ graphData.nodes # << >>
    /\ selectedNode # NoNode


(* C18.  Two-phase merge: when a response is applied, every edge of it      *)
(* whose source and target are each a node of the graph before or a node    *)
(* of the same response is an edge of the graph after, wherever the edge    *)
(* and its endpoints stand in the response.                                 *)
C18_TwoPhaseMerge ==
    [][ Step("fetchOk")
            => \A e \in Range(lastData'.edges) :
                  ( /\ e.source \in IdsOf(graphData) \cup IdsOf(lastData')
                    /\ e.target \in IdsOf(graphData) \cup IdsOf(lastData') )
                     => e \in Range(graphData'.edges) ]_vars

C18_Witness ==
    /\ last.op = "fetchOk"
    /\ last.via = "initial"
    /\ Len(graphData.nodes) = 2
    /\ \E e \in Range(graphData.edges) : HasEndpoints(e, graphData)


(* C19.  A response that brings no new node is a normal result: when every  *)
(* node id of an applied response was a node id of the graph before (the    *)
(* set of new ids is empty), no error is set, every node of the graph       *)
(* before is still in the graph and has the position it had.                *)
NewNodeIds(g, data) == IdsOf(data) \ IdsOf(g)

C19_NoNewNodes ==
    [][ (Step("fetchOk") /\ NewNodeIds(graphData, lastData') = {})
            => /\ error' = "null"
               /\ IdsOf(graphData) \subseteq IdsOf(graphData')
               /\ \A id \in IdsOf(graphData) \cap IdsOf(graphData') :
                     calculateNodePositions(graphData')[id]
                         = calculateNodePositions(graphData)[id] ]_vars


(* C20.  Last write wins by id: after a response is applied, for every node *)
(* it delivers the graph holds exactly one node of that id, with the label  *)
(* the response gives, and for every edge it delivers with both endpoints   *)
(* the graph holds exactly one edge of that id, with the endpoints the      *)
(* response gives, whatever the graph held under these ids before.          *)
HeldOnce(s, x) == Cardinality({i \in 1..Len(s) : s[i].id = x.id}) = 1 /\ x \in Range(s)

C20_LastWriteWins ==
    [][ Step("fetchOk")
            => /\ \A node \in Range(lastData'.nodes) : HeldOnce(graphData'.nodes, node)
               /\ \A e \in Range(ValidEdges(lastData')) : HeldOnce(graphData'.edges, e) ]_vars

C20_Witness ==
    /\ last.op = "fetchOk"
    /\ last.rewrites = << TRUE, TRUE >>
    /\ graphData.nodes = << N("n1", "B"), N("n2", "A") >>
    /\ graphData.edges = << E("e1", "n2", "n1") >>


(* C21.  Applying a response never fails and drops the dangling edges: a    *)
(* step that applies a response sets no error, and the edges of the graph   *)
(* after it are exactly the edges of the response with both endpoints, so   *)
(* that the number of edges dropped is the number of dangling edges of the  *)
(* response.                                                                *)
DanglingEdges(data) == SelectSeq(data.edges, LAMBDA e : ~HasEndpoints(e, data))

C21_MergeDropsDangling ==
    [][ Step("fetchOk")
            => /\ error' = error
               /\ \A e \in Range(DanglingEdges(lastData')) :
                     e \notin Range(graphData'.edges)
               /\ Len(lastData'.edges) - Len(graphData'.edges)
                     = Len(DanglingEdges(lastData')) ]_vars


(* C22.  Fit: from any viewport a step of handleFit gives scale 1 and       *)
(* position (0, 0), and a second handleFit right after one leaves the       *)
(* viewport as the first left it.                                           *)
C22_FitResets ==
    [][ /\ Step("fit") => scale' = ScaleOne /\ position' = Origin
        /\ (last.op = "fit" /\ Step("fit"))
              => UNCHANGED << scale, position, isDragging, dragStart >> ]_vars

C22_Witness ==
    /\ last.op = "fit"
    /\ last.n = 1
    /\ scale = ScaleOne
    /\ position = Origin
    /\ isDragging


(* C23.  Drag arithmetic: a mousedown at p0 records dragStart = p0 -        *)
(* position; every mousemove at p while dragging sets position = p -        *)
(* dragStart, so that from one pointer event of a drag to the next the      *)
(* position moves by the difference of the two pointer positions (and       *)
(* returns to its value at the mousedown when the pointer returns to p0);   *)
(* a mouseup leaves position as the last mousemove set it.                  *)
Minus(p, q) == [x |-> p.x - q.x, y |-> p.y - q.y]

Plus(p, q) == [x |-> p.x + q.x, y |-> p.y + q.y]

C23_DragArithmetic ==
    [][ /\ Step("mouseDown") => dragStart' = Minus(last'.at, position)
        /\ (Step("mouseMove") /\ isDragging)
              => position' = Minus(last'.at, dragStart)
        /\ ( /\ Step("mouseMove")
             /\ isDragging
             /\ last.op = "mouseDown" \/ (last.op = "mouseMove" /\ last.n = 1) )
              => position' = Plus(position, Minus(last'.at, last.at))
        /\ Step("mouseUp") => position' = position ]_vars

C23_Witness ==
    /\ last.op = "mouseMove"
    /\ last.n = 1
    /\ position = [x |-> -1, y |-> 1]
    /\ dragStart # Origin


(* C24.  Viewport operations touch nothing but the viewport: a step of a    *)
(* zoom button or of a mouse handler of the canvas leaves nodes, edges,     *)
(* the selection, loading and error unchanged, issues no fetch and no       *)
(* search and leaves the state of the page unchanged.                       *)
ViewOps == {"zoomIn", "zoomOut", "fit", "mouseDown", "mouseMove", "mouseUp"}

C24_ViewportOnly ==
    [][ (\E op \in ViewOps : Step(op))
            => UNCHANGED << graphData, selectedNode, loading, error, inflight,
                            effectDep, pageState >> ]_vars

C24_Witness ==
    /\ last.op = "fit"
    /\ last.n = 1
    /\ graphData.nodes # << >>
    /\ ~loading


(* C25.  First layout pass: with n >= 1 nodes in the graph every node has   *)
(* a position, the node at index i (counted from 0) is at i/n of a turn on  *)
(* the circle, and nodes of distinct ids are at distinct positions.         *)
C25_FirstLayout ==
    LET n == Len(graphData.nodes)
    IN  /\ DOMAIN nodePositions = IdsOf(graphData)
        /\ \A i \in 1..n :
              LET pos == nodePositions[graphData.nodes[i].id]
              IN  pos.den > 0 /\ pos.num * n = (i - 1) * pos.den
        /\ \A i, j \in 1..n :
              graphData.nodes[i].id # graphData.nodes[j].id
                 => nodePositions[graphData.nodes[i].id]
                       # nodePositions[graphData.nodes[j].id]

C25_Witness ==
    /\ last.op = "fetchOk"
    /\ last.via = "initial"
    /\ Len(graphData.nodes) = MaxNodes



(* C26.  Incremental placement: when a response is applied to a graph that  *)
(* already has placed nodes, two new nodes never receive the same position, *)
(* and no new node is put on the position at which a node was already       *)
(* placed: a new node with a placed neighbor lies off its anchor by the     *)
(* jitter, a new node without one takes a slot of the circle nobody uses.   *)
C26_IncrementalPlacement ==
    [][ (Step("fetchOk") /\ graphData.nodes # << >>)
            => LET new    == NewNodeIds(graphData, lastData') \cap IdsOf(graphData')
                   placed == calculateNodePositions(graphData)
                   now    == calculateNodePositions(graphData')
               IN  /\ \A v, w \in new : v # w => now[v] # now[w]
                   /\ \A v \in new : \A a \in IdsOf(graphData) :
                         now[v] # placed[a] ]_vars


C28_LoadingTracksInflight ==
    loading <=> (inflight # << >>)



(* C29.  Zoom and pan are independent: zooming in or out changes neither    *)
(* the offset, nor whether a drag is in progress, nor its anchor; pressing, *)
(* moving and releasing the mouse leave the scale as it is; and the move    *)
(* that follows a zoom made in the middle of a drag sets the offset to the  *)
(* pointer minus the anchor of the drag, as if no zoom had happened.        *)
C29_ZoomPanIndependent ==
    [][ /\ (Step("zoomIn") \/ Step("zoomOut"))
            => UNCHANGED << position, isDragging, dragStart >>
        /\ (Step("mouseDown") \/ Step("mouseMove") \/ Step("mouseUp"))
            => scale' = scale
        /\ (Step("mouseMove") /\ isDragging /\ last.op \in {"zoomIn", "zoomOut"})
            => position' = Minus(last'.at, dragStart) ]_vars

C29_Witness ==
    /\ last.op = "zoomOut"
    /\ isDragging
    /\ scale # ScaleOne
    /\ position # Origin
    /\ dragStart # Origin



(* C30.  Capture throttle: any two POSTs of the extension were issued at    *)
(* least CAPTURE_INTERVAL_MS apart, and lastCaptureTime is the time of the  *)
(* latest one; a tab event that arrives inside the window, or for a tab     *)
(* without URL or with a chrome:// URL, issues no request and leaves        *)
(* lastCaptureTime as it is; and the failure of a POST neither changes      *)
(* lastCaptureTime nor takes the request back, so it still holds the window.*)
CaptureSteps == {"tabUpdated", "tabGot"}

InsideWindow == clock - lastCaptureTime < CAPTURE_INTERVAL_MS

C30_CaptureThrottle ==
    /\ [](/\ \A i, j \in 1..Len(posts) :
                i < j => posts[j].at - posts[i].at >= CAPTURE_INTERVAL_MS
          /\ posts # << >> => lastCaptureTime = posts[Len(posts)].at)
    /\ [][ /\ ( /\ \E op \in CaptureSteps : Step(op)
                /\ \/ InsideWindow
                   \/ last'.tab.url = << >>
                   \/ startsWith(last'.tab.url, ChromePrefix) )
               => UNCHANGED << posts, lastCaptureTime >>
           /\ Step("postFail")
               => /\ lastCaptureTime' = lastCaptureTime
                  /\ Len(posts') = Len(posts)
                  /\ \A i \in 1..Len(posts) : posts'[i].at = posts[i].at ]_vars

C30_Witness ==
    /\ last.op \in CaptureSteps
    /\ last.via = "complete"
    /\ Capturable(last.tab)
    /\ Len(posts) = 2
    /\ posts[2].status = "error"
    /\ clock - lastCaptureTime = 1999

=============================================================================
